---- MODULE Spec2Model ----
(***************************************************************************)
(* Model of MINE/split_train_valid.py: discovery of image/label pairs,     *)
(* seeded shuffle and slice, and the copy of both splits into              *)
(* <parent>/train and <parent>/valid.                                      *)
(*                                                                         *)
(* File names.  Image i of 1..MaxImages stands for the i-th file name in   *)
(* lexicographic order: 1 = "a.jpeg", 2 = "a.jpg", 3 = "b.jpg",            *)
(* 4 = "c.jpg", ...  so that the integer order is the order sorted() uses, *)
(* and images 1 and 2 share the stem "a".  Label s stands for "<stem>.txt".*)
(*                                                                         *)
(* Directories.  "I" is images_dir, "TI","TL","VI","VL" are the four       *)
(* output directories under dirname(images_dir), "L" is a labels directory *)
(* outside the output tree.  labels_dir is "L" or one of the output        *)
(* directories.                                                            *)
(*                                                                         *)
(* train_ratio is a multiple of 1/RatioDen, or nan (inf fails in int() the *)
(* same way).  For RatioDen a power of two these ratios and their products *)
(* with a list length are exact binary64 values, so                        *)
(* int(total * train_ratio) is the truncation of the exact product.        *)
(***************************************************************************)
EXTENDS Integers, Sequences, FiniteSets, TLC

MaxImages == 3
MaxSeed == 1
MaxRuns == 2
RatioDen == 4

(* Program state: the file system (fs, dirs), the arguments, the generator *)
(* state rng, the locals of split_and_copy and the position pc/idx/cpos.   *)
(* History only: runs, seedCount, globbed (the order glob returned, kept   *)
(* until the output directories are made), warnings, paired (valid_pairs   *)
(* before the in-place shuffle), fs0/dirs0 (the file system when the       *)
(* current run started), copied, hist (the split of the first run that     *)
(* computed one).                                                          *)
VARIABLES fs, dirs, labels_dir, pc, runs, train_ratio, seed, rng, seedCount,
          globbed, image_files, idx, valid_pairs, warnings, paired,
          train_pairs, valid_pairs_, cpos, cphase, fs0, dirs0, copied, hist

vars == <<fs, dirs, labels_dir, pc, runs, train_ratio, seed, rng, seedCount,
          globbed, image_files, idx, valid_pairs, warnings, paired,
          train_pairs, valid_pairs_, cpos, cphase, fs0, dirs0, copied, hist>>

----------------------------------------------------------------------------
(* File system                                                             *)

Images == 1..MaxImages

IsJpeg(i) == i = 1

Stem(i) == IF i <= 2 THEN 1 ELSE i - 1

Stems == {Stem(i) : i \in Images}

OutDirs == {"TI", "TL", "VI", "VL"}

OutDirSeq == <<"TI", "TL", "VI", "VL">>

AllDirs == {"I", "L"} \cup OutDirs

LabelDirs == {"L", "TL", "VL", "TI"}

ImgPath(d, i) == <<d, "img", i>>

LblPath(d, s) == <<d, "txt", s>>

Paths == {ImgPath(d, i) : d \in AllDirs, i \in Images}
           \cup {LblPath(d, s) : d \in AllDirs, s \in Stems}

Absent == <<"absent", 0>>

Old == <<"old", 0>>

Partial == <<"partial", 0>>

Exists(f, p) == f[p] # Absent

Seeds == 0..MaxSeed

RatioNums == {0 - (RatioDen \div 2), 0, RatioDen \div 2, RatioDen,
              RatioDen + (RatioDen \div 2)}

Finite(n) == [kind |-> "finite", num |-> n]

NaN == [kind |-> "nan", num |-> 0]

Ratios == {Finite(n) : n \in RatioNums} \cup {NaN}

----------------------------------------------------------------------------
(* Pure helpers                                                            *)

Range(s) == {s[k] : k \in 1..Len(s)}

Perms(S) == {f \in [1..Cardinality(S) -> S] : \A a, b \in 1..Cardinality(S) : f[a] = f[b] => a = b}

RECURSIVE Insert(_, _)
Insert(x, s) ==
  IF s = <<>> THEN <<x>>
  ELSE IF x <= Head(s) THEN <<x>> \o s
  ELSE <<Head(s)>> \o Insert(x, Tail(s))

(* faulty variant: the enumerated paths are used in the order glob returned them *)
NoSort(s) == s

RECURSIVE Sorted(_)
Sorted(s) == IF s = <<>> THEN <<>> ELSE Insert(Head(s), Sorted(Tail(s)))

Trunc(a, d) == IF a >= 0 THEN a \div d ELSE 0 - ((0 - a) \div d)

Floor(a, d) == a \div d

SliceIndex(k, n) == IF k < 0 THEN (IF n + k < 0 THEN 0 ELSE n + k)
                    ELSE IF k > n THEN n ELSE k

PyHead(s, k) == SubSeq(s, 1, SliceIndex(k, Len(s)))

(* faulty variant: the valid slice starts one element too late             *)
PyTailOffByOne(s, k) == SubSeq(s, SliceIndex(k, Len(s)) + 2, Len(s))

PyTail(s, k) == SubSeq(s, SliceIndex(k, Len(s)) + 1, Len(s))

NextRng(s) == (5 * s + 3) % 16

Swap(s, a, b) == [s EXCEPT ![a] = s[b], ![b] = s[a]]

RECURSIVE ShuffleFrom(_, _, _)
ShuffleFrom(s, i, g) ==
  IF i < 2 THEN [list |-> s, rng |-> g]
  ELSE LET g2 == NextRng(g)
           j == (g2 % i) + 1
       IN ShuffleFrom(Swap(s, i, j), i - 1, g2)

Shuffle(s, g) == ShuffleFrom(s, Len(s), g)

NoHist == [set |-> FALSE, seed |-> 0, ratio |-> NaN, globbed |-> <<>>,
           images |-> {}, labels |-> {}, train |-> {}, valid |-> {}]

ImageSet(f) == {i \in Images : Exists(f, <<"I", "img", i>>)}

LabelSet(f, ld) == {t \in {Stem(i) : i \in Images} : Exists(f, <<ld, "txt", t>>)}

----------------------------------------------------------------------------
(* Initial state: the file system before the first run                     *)

OldFiles == {ImgPath("TI", 2), ImgPath("VI", 2), LblPath("TL", 1)}

InitContent(n, missing, ld, tree, p) ==
  IF p[1] = ld /\ p[2] = "txt"
    THEN (IF p[3] # missing THEN <<"txt", p[3]>> ELSE Absent)
  ELSE IF p[1] = "I"
    THEN (IF p[2] = "img" /\ p[3] <= n THEN <<"img", p[3]>> ELSE Absent)
  ELSE IF tree /\ p \in OldFiles THEN Old
  ELSE Absent

InitDirs(iEx, lEx, tree) ==
  (IF iEx THEN {"I"} ELSE {}) \cup (IF lEx THEN {"L"} ELSE {})
    \cup (IF tree THEN OutDirs ELSE {})

Init ==
  \E n \in 0..MaxImages, missing \in {0} \cup Stems, ld \in LabelDirs,
     iEx \in BOOLEAN, lEx \in BOOLEAN, tree \in BOOLEAN :
    /\ ld = "L" <=> lEx
    /\ ~iEx => n = 0
    /\ dirs = InitDirs(iEx, lEx, tree)
    /\ labels_dir = ld
    /\ fs = [p \in Paths |->
               IF p[1] \in InitDirs(iEx, lEx, tree)
                 THEN InitContent(n, missing, ld, tree, p) ELSE Absent]
    /\ fs0 = fs
    /\ dirs0 = dirs
    /\ pc = "main"
    /\ runs = 1
    /\ train_ratio = NaN
    /\ seed = 0
    /\ rng = 0
    /\ seedCount = 0
    /\ globbed = <<>>
    /\ image_files = <<>>
    /\ idx = 1
    /\ valid_pairs = <<>>
    /\ warnings = <<>>
    /\ paired = <<>>
    /\ train_pairs = <<>>
    /\ valid_pairs_ = <<>>
    /\ cpos = 1
    /\ cphase = "img"
    /\ copied = {}
    /\ hist = NoHist

----------------------------------------------------------------------------
(* main                                                                    *)

(* faulty variant: the two directory checks are missing                    *)
MainNoCheck(r, s) ==
  /\ pc = "main"
  /\ train_ratio' = r
  /\ seed' = s
  /\ pc' = "seed"
  /\ UNCHANGED <<fs, dirs, labels_dir, runs, rng, seedCount, globbed,
                 image_files, idx, valid_pairs, warnings, paired, train_pairs,
                 valid_pairs_, cpos, cphase, fs0, dirs0, copied, hist>>

Main(r, s) ==
  /\ pc = "main"
  /\ train_ratio' = r
  /\ seed' = s
  /\ pc' = IF "I" \notin dirs THEN "config_error"
           ELSE IF labels_dir \notin dirs THEN "config_error"
           ELSE "seed"
  /\ UNCHANGED <<fs, dirs, labels_dir, runs, rng, seedCount, globbed,
                 image_files, idx, valid_pairs, warnings, paired, train_pairs,
                 valid_pairs_, cpos, cphase, fs0, dirs0, copied, hist>>

(* split_and_copy: random.seed(seed)                                       *)
SeedRng ==
  /\ pc = "seed"
  /\ rng' = seed
  /\ seedCount' = seedCount + 1
  /\ pc' = "glob"
  /\ UNCHANGED <<fs, dirs, labels_dir, runs, train_ratio, seed, globbed,
                 image_files, idx, valid_pairs, warnings, paired, train_pairs,
                 valid_pairs_, cpos, cphase, fs0, dirs0, copied, hist>>

(* split_and_copy: glob of *.jpg, then of *.jpeg, then sorted()            *)
Enumerated(a, b) == a \o b

GlobSort ==
  /\ pc = "glob"
  /\ LET jpg == {i \in Images : Exists(fs, ImgPath("I", i)) /\ ~IsJpeg(i)}
         jpeg == {i \in Images : Exists(fs, ImgPath("I", i)) /\ IsJpeg(i)}
     IN \E a \in Perms(jpg), b \in Perms(jpeg) :
          /\ globbed' = Enumerated(a, b)
          /\ image_files' = Sorted(Enumerated(a, b))
  /\ idx' = 1
  /\ valid_pairs' = <<>>
  /\ pc' = "pair"
  /\ UNCHANGED <<fs, dirs, labels_dir, runs, train_ratio, seed, rng, seedCount,
                 warnings, paired, train_pairs, valid_pairs_, cpos, cphase,
                 fs0, dirs0, copied, hist>>

(* split_and_copy: one iteration of the pairing loop                       *)
(* faulty variant: the existence test looks at labels_dir, not at the label file *)
LabelExistsDir(f, ld, img) == ld \in AllDirs

LabelExists(f, ld, img) == Exists(f, LblPath(ld, Stem(img)))

PairStep ==
  /\ pc = "pair"
  /\ idx <= Len(image_files)
  /\ LET img == image_files[idx]
     IN IF LabelExists(fs, labels_dir, img)
          THEN /\ valid_pairs' = Append(valid_pairs, <<img, Stem(img)>>)
               /\ UNCHANGED warnings
          ELSE /\ warnings' = Append(warnings, img)
               /\ UNCHANGED valid_pairs
  /\ idx' = idx + 1
  /\ UNCHANGED <<fs, dirs, labels_dir, pc, runs, train_ratio, seed, rng,
                 seedCount, globbed, image_files, paired, train_pairs,
                 valid_pairs_, cpos, cphase, fs0, dirs0, copied, hist>>

(* split_and_copy: train_count (int() raises on nan), random.shuffle and   *)
(* the two slices                                                          *)
(* faulty variant: the product is rounded to the nearest integer, not truncated *)
TrainCountRound(total, r) ==
  Floor(2 * total * r.num + RatioDen, 2 * RatioDen)

TrainCount(total, r) == Trunc(total * r.num, RatioDen)

Partition ==
  /\ pc = "pair"
  /\ idx > Len(image_files)
  /\ paired' = valid_pairs
  /\ IF train_ratio.kind # "finite"
       THEN /\ pc' = "value_error"
            /\ UNCHANGED <<valid_pairs, rng, train_pairs, valid_pairs_, hist>>
       ELSE LET sh == Shuffle(valid_pairs, rng)
                tc == TrainCount(Len(valid_pairs), train_ratio)
            IN /\ valid_pairs' = sh.list
               /\ rng' = sh.rng
               /\ train_pairs' = PyHead(sh.list, tc)
               /\ valid_pairs_' = PyTail(sh.list, tc)
               /\ hist' = IF hist.set THEN hist
                          ELSE [set |-> TRUE, seed |-> seed,
                                ratio |-> train_ratio, globbed |-> globbed,
                                images |-> ImageSet(fs),
                                labels |-> LabelSet(fs, labels_dir),
                                train |-> Range(PyHead(sh.list, tc)),
                                valid |-> Range(PyTail(sh.list, tc))]
               /\ pc' = "mkdirs"
  /\ UNCHANGED <<fs, dirs, labels_dir, runs, train_ratio, seed, seedCount,
                 globbed, image_files, idx, warnings, cpos, cphase, fs0,
                 dirs0, copied>>

----------------------------------------------------------------------------
(* create_dir_structure: os.makedirs(d, exist_ok=True) for the four        *)
(* directories in order; k is the number of calls that succeed             *)

(* faulty variant: the output tree is emptied before it is made            *)
MakeDirsClean(k) ==
  /\ pc = "mkdirs"
  /\ k < Len(OutDirSeq) => OutDirSeq[k + 1] \notin dirs
  /\ dirs' = dirs \cup {OutDirSeq[j] : j \in 1..k}
  /\ fs' = [p \in Paths |-> IF p[1] \in OutDirs THEN Absent ELSE fs[p]]
  /\ pc' = IF k = Len(OutDirSeq) THEN "copy_train" ELSE "error"
  /\ cpos' = 1
  /\ cphase' = "img"
  /\ globbed' = <<>>
  /\ UNCHANGED <<labels_dir, runs, train_ratio, seed, rng, seedCount,
                 image_files, idx, valid_pairs, warnings, paired,
                 train_pairs, valid_pairs_, fs0, dirs0, copied, hist>>

MakeDirs(k) ==
  /\ pc = "mkdirs"
  /\ k < Len(OutDirSeq) => OutDirSeq[k + 1] \notin dirs
  /\ dirs' = dirs \cup {OutDirSeq[j] : j \in 1..k}
  /\ pc' = IF k = Len(OutDirSeq) THEN "copy_train" ELSE "error"
  /\ cpos' = 1
  /\ cphase' = "img"
  /\ globbed' = <<>>
  /\ UNCHANGED <<fs, labels_dir, runs, train_ratio, seed, rng, seedCount,
                 image_files, idx, valid_pairs, warnings, paired,
                 train_pairs, valid_pairs_, fs0, dirs0, copied, hist>>

----------------------------------------------------------------------------
(* copy_data                                                               *)

Copying == pc \in {"copy_train", "copy_valid"}

(* faulty variant: the two batches are passed to copy_data the wrong way round *)
CurPairsSwapped == IF pc = "copy_train" THEN valid_pairs_ ELSE train_pairs

CurPairs == IF pc = "copy_train" THEN train_pairs ELSE valid_pairs_

ImgOut == IF pc = "copy_train" THEN "TI" ELSE "VI"

LblOut == IF pc = "copy_train" THEN "TL" ELSE "VL"

SrcOf(ld, pair, phase) ==
  IF phase = "img" THEN ImgPath("I", pair[1]) ELSE LblPath(ld, pair[2])

DstOf(imgOut, lblOut, pair, phase) ==
  IF phase = "img" THEN ImgPath(imgOut, pair[1]) ELSE LblPath(lblOut, pair[2])

CurSrc == SrcOf(labels_dir, CurPairs[cpos], cphase)

CurDst == DstOf(ImgOut, LblOut, CurPairs[cpos], cphase)

(* faulty variant: an existing destination is kept                         *)
Copy2NoOverwrite(f, src, dst) ==
  IF f[dst] # Absent THEN f ELSE [f EXCEPT ![dst] = f[src]]

Copy2(f, src, dst) == [f EXCEPT ![dst] = f[src]]

(* shutil.copy2 succeeds: image first, then the label of the same pair     *)
CopyFile ==
  /\ Copying
  /\ cpos <= Len(CurPairs)
  /\ CurSrc # CurDst
  /\ fs' = Copy2(fs, CurSrc, CurDst)
  /\ copied' = copied \cup {CurDst}
  /\ IF cphase = "img"
       THEN /\ cphase' = "lbl"
            /\ UNCHANGED cpos
       ELSE /\ cphase' = "img"
            /\ cpos' = cpos + 1
  /\ UNCHANGED <<dirs, labels_dir, pc, runs, train_ratio, seed, rng,
                 seedCount, globbed, image_files, idx, valid_pairs, warnings,
                 paired, train_pairs, valid_pairs_, fs0, dirs0, hist>>

(* faulty variant: no same-file test; the destination, which is the source, is *)
(* opened for writing and truncated                                        *)
CopySameFileTruncate ==
  /\ Copying
  /\ cpos <= Len(CurPairs)
  /\ CurSrc = CurDst
  /\ fs' = [fs EXCEPT ![CurDst] = Partial]
  /\ pc' = "error"
  /\ UNCHANGED <<dirs, labels_dir, runs, train_ratio, seed, rng,
                 seedCount, globbed, image_files, idx, valid_pairs, warnings,
                 paired, train_pairs, valid_pairs_, cpos, cphase, fs0, dirs0,
                 copied, hist>>

(* shutil.copy2 raises SameFileError: source and destination are one file  *)
CopySameFile ==
  /\ Copying
  /\ cpos <= Len(CurPairs)
  /\ CurSrc = CurDst
  /\ pc' = "error"
  /\ UNCHANGED <<fs, dirs, labels_dir, runs, train_ratio, seed, rng,
                 seedCount, globbed, image_files, idx, valid_pairs, warnings,
                 paired, train_pairs, valid_pairs_, cpos, cphase, fs0, dirs0,
                 copied, hist>>

(* faulty variant: the I/O error is swallowed and the loop goes on         *)
CopyFailContinue ==
  /\ Copying
  /\ cpos <= Len(CurPairs)
  /\ CurSrc # CurDst
  /\ \/ UNCHANGED fs
     \/ fs' = [fs EXCEPT ![CurDst] = Partial]
  /\ IF cphase = "img"
       THEN /\ cphase' = "lbl"
            /\ UNCHANGED cpos
       ELSE /\ cphase' = "img"
            /\ cpos' = cpos + 1
  /\ UNCHANGED <<dirs, labels_dir, pc, runs, train_ratio, seed, rng,
                 seedCount, globbed, image_files, idx, valid_pairs, warnings,
                 paired, train_pairs, valid_pairs_, fs0, dirs0, copied, hist>>

(* shutil.copy2 raises an I/O error: the destination is left as it was, or *)
(* was already opened for writing and holds a partial copy                 *)
CopyFail ==
  /\ Copying
  /\ cpos <= Len(CurPairs)
  /\ CurSrc # CurDst
  /\ \/ UNCHANGED fs
     \/ fs' = [fs EXCEPT ![CurDst] = Partial]
  /\ pc' = "error"
  /\ UNCHANGED <<dirs, labels_dir, runs, train_ratio, seed, rng, seedCount,
                 globbed, image_files, idx, valid_pairs, warnings, paired,
                 train_pairs, valid_pairs_, cpos, cphase, fs0, dirs0, copied,
                 hist>>

(* the train batch is finished: copy_data(valid_pairs_, ...) is called     *)
StartValid ==
  /\ pc = "copy_train"
  /\ cpos > Len(CurPairs)
  /\ pc' = "copy_valid"
  /\ cpos' = 1
  /\ cphase' = "img"
  /\ UNCHANGED <<fs, dirs, labels_dir, runs, train_ratio, seed, rng,
                 seedCount, globbed, image_files, idx, valid_pairs, warnings,
                 paired, train_pairs, valid_pairs_, fs0, dirs0, copied, hist>>

(* the valid batch is finished: split_and_copy and main return             *)
Finish ==
  /\ pc = "copy_valid"
  /\ cpos > Len(CurPairs)
  /\ pc' = "done"
  /\ UNCHANGED <<fs, dirs, labels_dir, runs, train_ratio, seed, rng,
                 seedCount, globbed, image_files, idx, valid_pairs, warnings,
                 paired, train_pairs, valid_pairs_, cpos, cphase, fs0, dirs0,
                 copied, hist>>

(* the script is started again on the file system the last run left        *)
Terminated == pc \in {"done", "error", "value_error", "config_error"}

NewRun ==
  /\ Terminated
  /\ runs < MaxRuns
  /\ runs' = runs + 1
  /\ pc' = "main"
  /\ fs0' = fs
  /\ dirs0' = dirs
  /\ train_ratio' = NaN
  /\ seed' = 0
  /\ rng' = 0
  /\ seedCount' = 0
  /\ globbed' = <<>>
  /\ image_files' = <<>>
  /\ idx' = 1
  /\ valid_pairs' = <<>>
  /\ warnings' = <<>>
  /\ paired' = <<>>
  /\ train_pairs' = <<>>
  /\ valid_pairs_' = <<>>
  /\ cpos' = 1
  /\ cphase' = "img"
  /\ copied' = {}
  /\ UNCHANGED <<fs, dirs, labels_dir, hist>>

(* one execution of the script                                             *)
NextOneRun ==
  \/ \E r \in Ratios, s \in Seeds : Main(r, s)
  \/ SeedRng
  \/ GlobSort
  \/ PairStep
  \/ Partition
  \/ \E k \in 0..Len(OutDirSeq) : MakeDirs(k)
  \/ CopyFile
  \/ CopySameFile
  \/ CopyFail
  \/ StartValid
  \/ Finish

SpecOneRun == Init /\ [][NextOneRun]_vars

(* any sequence of executions, each on the file system the last one left   *)
Next == NextOneRun \/ NewRun

Spec == Init /\ [][Next]_vars

----------------------------------------------------------------------------
(* Claims                                                                  *)

Partitioned == pc \in {"mkdirs", "copy_train", "copy_valid", "done", "error"}

Count(s, x) == Cardinality({k \in 1..Len(s) : s[k] = x})

(* C1: once the shuffle-and-slice step has produced the two sets, for any  *)
(* seed and any finite train_ratio (negative and above 1 included) the     *)
(* train set and the valid set are disjoint, their union is the set of     *)
(* valid pairs discovery produced, each valid pair occurs exactly once in  *)
(* exactly one of them, and the sizes add up.                              *)
C1_Completeness ==
  Partitioned =>
    /\ Range(train_pairs) \cap Range(valid_pairs_) = {}
    /\ Range(train_pairs) \cup Range(valid_pairs_) = Range(paired)
    /\ Len(train_pairs) + Len(valid_pairs_) = Len(paired)
    /\ \A x \in Range(paired) :
         Count(paired, x) = 1 /\ Count(train_pairs \o valid_pairs_, x) = 1

C1_Witness ==
  /\ Partitioned
  /\ train_ratio.num < 0
  /\ Len(paired) = MaxImages
  /\ train_pairs # <<>>
  /\ valid_pairs_ # <<>>

InUnitInterval(r) == r.kind = "finite" /\ 0 <= r.num /\ r.num <= RatioDen

(* C2: for a train_ratio in [0, 1] the train set has exactly               *)
(* floor(n * train_ratio) members and the valid set the other n - floor;   *)
(* ratio 0 gives an empty train set, ratio 1 an empty valid set, n = 0 two *)
(* empty sets, and the computation raises no error.                        *)
C2_RatioBound ==
  /\ (Partitioned /\ InUnitInterval(train_ratio)) =>
       /\ Len(train_pairs) = Floor(Len(paired) * train_ratio.num, RatioDen)
       /\ Len(valid_pairs_) =
            Len(paired) - Floor(Len(paired) * train_ratio.num, RatioDen)
       /\ train_ratio.num = 0 => train_pairs = <<>>
       /\ train_ratio.num = RatioDen => valid_pairs_ = <<>>
       /\ Len(paired) = 0 => train_pairs = <<>> /\ valid_pairs_ = <<>>
  /\ pc = "value_error" => ~InUnitInterval(train_ratio)

C2_Witness ==
  /\ Partitioned
  /\ InUnitInterval(train_ratio)
  /\ 2 * ((Len(paired) * train_ratio.num) \div RatioDen) + 1 = Len(paired)
  /\ Len(paired) > 1
  /\ 2 * Len(train_pairs) < Len(paired)

HasLabel(img) == fs[<<labels_dir, "txt", Stem(img)>>] # <<"absent", 0>>

PairsOf(s, img) == {k \in 1..Len(s) : s[k][1] = img}

(* C3: while and after the pairing loop runs, every image already visited  *)
(* whose <labels_dir>/<stem>.txt exists has exactly one pair               *)
(* (image, label of its stem) and no warning, every visited image without  *)
(* it has no pair and exactly one warning, the loop goes on after a        *)
(* warning, visited = pairs + warnings, and the pairs are in the sorted    *)
(* order of the image paths.                                               *)
C3_Pairing ==
  pc = "pair" =>
    /\ Range(image_files) = ImageSet(fs)
    /\ \A k \in 1..(idx - 1) :
         LET img == image_files[k]
         IN IF HasLabel(img)
              THEN /\ Cardinality(PairsOf(valid_pairs, img)) = 1
                   /\ Count(valid_pairs, <<img, Stem(img)>>) = 1
                   /\ Count(warnings, img) = 0
              ELSE /\ PairsOf(valid_pairs, img) = {}
                   /\ Count(warnings, img) = 1
    /\ \A k \in idx..Len(image_files) :
         PairsOf(valid_pairs, image_files[k]) = {}
           /\ Count(warnings, image_files[k]) = 0
    /\ idx - 1 = Len(valid_pairs) + Len(warnings)
    /\ \A a, b \in 1..Len(valid_pairs) :
         a < b => valid_pairs[a][1] < valid_pairs[b][1]

C3_Witness ==
  /\ pc = "pair"
  /\ idx > Len(image_files)
  /\ Len(warnings) > 0
  /\ Len(valid_pairs) > 1
  /\ globbed # image_files

BadConfig == "I" \notin dirs \/ labels_dir \notin dirs

(* C4: a run whose images_dir or labels_dir is not an existing directory   *)
(* never gets past main, and in the configuration-error state nothing has  *)
(* happened: the generator is not seeded, no output directory has been     *)
(* created, no file copied, and the file system is the one the run started *)
(* with.                                                                   *)
C4_ConfigErrorFirst ==
  /\ BadConfig => pc \in {"main", "config_error"}
  /\ pc = "config_error" =>
       /\ BadConfig
       /\ fs = fs0
       /\ dirs = dirs0
       /\ seedCount = 0
       /\ image_files = <<>>
       /\ copied = {}

C4_Witness ==
  /\ pc = "config_error"
  /\ "I" \notin dirs
  /\ OutDirs \cap dirs = {}

SameInputsAsFirst ==
  /\ hist.set
  /\ hist.seed = seed
  /\ hist.ratio = train_ratio
  /\ hist.images = ImageSet(fs)
  /\ hist.labels = LabelSet(fs, labels_dir)

(* C5: a run with the seed, the train_ratio and the image and label files  *)
(* of the first run that computed a split computes the same train          *)
(* membership and the same valid membership, whatever order glob returned  *)
(* the images in.                                                          *)
C5_Determinism ==
  (Partitioned /\ SameInputsAsFirst) =>
    /\ Range(train_pairs) = hist.train
    /\ Range(valid_pairs_) = hist.valid

C5_Witness ==
  /\ runs > 1
  /\ pc = "mkdirs"
  /\ SameInputsAsFirst
  /\ globbed # hist.globbed
  /\ train_pairs # <<>>
  /\ valid_pairs_ # <<>>

InSplit(pairs, imgOut, lblOut) ==
  \A k \in 1..Len(pairs) :
    LET img == <<imgOut, "img", pairs[k][1]>>
        lbl == <<lblOut, "txt", pairs[k][2]>>
    IN /\ fs[img] = <<"img", pairs[k][1]>>
       /\ fs[img] = fs[<<"I", "img", pairs[k][1]>>]
       /\ fs[lbl] = <<"txt", pairs[k][2]>>
       /\ fs[lbl] = fs[<<labels_dir, "txt", pairs[k][2]>>]
       /\ img \in copied
       /\ lbl \in copied

(* C6: when a run is done, each train pair's image is in train/images and  *)
(* its label in train/labels, each valid pair's in valid/images and        *)
(* valid/labels, with the content of the source, also where the            *)
(* destination existed before the run; both files of a pair were copied by *)
(* this run into the same split.                                           *)
C6_Materialized ==
  pc = "done" =>
    /\ InSplit(train_pairs, "TI", "TL")
    /\ InSplit(valid_pairs_, "VI", "VL")

C6_Witness ==
  /\ pc = "done"
  /\ valid_pairs_ # <<>>
  /\ \E k \in 1..Len(train_pairs) :
       fs0[<<"TI", "img", train_pairs[k][1]>>] = <<"old", 0>>

C7_Step ==
  /\ pc = "error" => (fs' = fs /\ dirs' = dirs)
  /\ (Copying /\ pc' = "error") =>
       /\ dirs' = dirs
       /\ \A p \in Paths : p # CurDst => fs'[p] = fs[p]
       /\ \A p \in copied : fs'[p] # <<"absent", 0>>
       /\ copied' = copied
  /\ (Copying /\ cpos <= Len(CurPairs) /\ pc' # "error") =>
       /\ fs' = [fs EXCEPT ![CurDst] = fs[CurSrc]]
       /\ fs'[CurDst] # <<"absent", 0>>

(* C7: a copy that does not succeed puts the run in the error state at     *)
(* once (the loop never goes on past a file it did not copy), the failing  *)
(* step removes no directory and no file copied before, and from the error *)
(* state the run changes nothing on disk any more.                         *)
C7_AbortNoRollback ==
  /\ [](pc = "error" =>
          /\ \A p \in copied : fs[p] # <<"absent", 0>>
          /\ dirs0 \subseteq dirs)
  /\ [][C7_Step]_vars

C7_Witness ==
  /\ pc = "error"
  /\ copied # {}
  /\ dirs # dirs0
  /\ train_pairs # <<>>
  /\ \E k \in 1..Len(valid_pairs_) :
       fs[<<"VI", "img", valid_pairs_[k][1]>>] = <<"absent", 0>>

(* C8 as stated: in every state of a run every file that was in images_dir *)
(* or in labels_dir when the run started is there with the same content,   *)
(* for every choice of labels_dir.                                         *)
C8_AllFilesOfInputDirsUnchanged ==
  \A p \in Paths :
    (p[1] \in {"I", labels_dir} /\ fs0[p] # <<"absent", 0>>) => fs[p] = fs0[p]

IsSource(p) == p[1] = "I" \/ (p[1] = labels_dir /\ p[2] = "txt")

(* C8 amended: in every state of a run every file of images_dir and every  *)
(* label file (<stem>.txt) of labels_dir that was there when the run       *)
(* started is there with the same content, for every choice of labels_dir, *)
(* one that is an output directory included.                               *)
C8_SourcesReadOnly ==
  \A p \in Paths : (IsSource(p) /\ fs0[p] # <<"absent", 0>>) => fs[p] = fs0[p]

C8_Witness ==
  /\ labels_dir = "TL"
  /\ pc = "error"
  /\ cphase = "lbl"
  /\ cpos <= Len(train_pairs)
  /\ <<"TI", "img", train_pairs[cpos][1]>> \in copied
  /\ <<"TL", "txt", train_pairs[cpos][2]>> \notin copied
  /\ fs[<<"TL", "txt", train_pairs[cpos][2]>>] = <<"txt", train_pairs[cpos][2]>>

BeforeSeed == pc \in {"main", "seed", "config_error"}

BeforeSplit == pc \in {"main", "seed", "glob", "pair", "config_error", "value_error"}

TrainAllCopied ==
  \A k \in 1..Len(train_pairs) :
    /\ <<"TI", "img", train_pairs[k][1]>> \in copied
    /\ <<"TL", "txt", train_pairs[k][2]>> \in copied

C9_State ==
  /\ BeforeSeed => seedCount = 0
  /\ ~BeforeSeed => seedCount = 1
  /\ Partitioned => idx > Len(image_files)
  /\ BeforeSplit => (fs = fs0 /\ dirs = dirs0 /\ copied = {}
                       /\ train_pairs = <<>> /\ valid_pairs_ = <<>>)
  /\ (\E p \in copied : p[1] \in {"VI", "VL"}) => TrainAllCopied

C9_Step ==
  /\ (pc = "pair" /\ pc' = "mkdirs") =>
       (seedCount = 1 /\ seedCount' = 1 /\ idx > Len(image_files))
  /\ (fs' # fs \/ dirs' # dirs) =>
       /\ pc \in {"mkdirs", "copy_train", "copy_valid"}
       /\ train_pairs' = train_pairs
       /\ valid_pairs_' = valid_pairs_
  /\ pc \in {"copy_train", "copy_valid"} =>
       (train_pairs' = train_pairs /\ valid_pairs_' = valid_pairs_)
  /\ (pc = "copy_valid" /\ fs' # fs) => TrainAllCopied

(* C9: the generator is seeded exactly once in a run and before the        *)
(* shuffle; the shuffle and slice happen when every enumerated image has   *)
(* been visited; nothing on disk changes before the split is computed;     *)
(* the split does not change while the disk changes nor during the copy    *)
(* phase; a valid pair is copied only when every train pair has been.      *)
C9_PhaseOrder == [](C9_State) /\ [][C9_Step]_vars

C9_Witness ==
  /\ pc = "copy_valid"
  /\ cpos > 1
  /\ Len(train_pairs) > 1
  /\ \E p \in copied : p[1] = "VI"

Present(f) == {p \in Paths : f[p] # <<"absent", 0>>}

OnDisk(imgOut) == {i \in Images : fs[<<imgOut, "img", i>>] # <<"absent", 0>>}

ImagesOf(pairs) == {pairs[k][1] : k \in 1..Len(pairs)}

C10_State ==
  /\ Present(fs0) \subseteq Present(fs)
  /\ dirs0 \subseteq dirs
  /\ pc = "done" =>
       /\ ImagesOf(train_pairs) \subseteq OnDisk("TI")
       /\ ImagesOf(valid_pairs_) \subseteq OnDisk("VI")

C10_Step == Present(fs) \subseteq Present(fs') /\ dirs \subseteq dirs'

(* C10: no step of any run removes a file or a directory of the output     *)
(* tree (nor any other); every file that was there when a run started is   *)
(* there in each of its states; and when a run is done the files on disk   *)
(* in a split include those of the split it computed.                      *)
C10_NeverRemoves == [](C10_State) /\ [][C10_Step]_vars

C10_Witness ==
  /\ runs > 1
  /\ pc = "done"
  /\ \E i \in ImagesOf(valid_pairs_) :
       /\ fs[<<"TI", "img", i>>] = <<"img", i>>
       /\ fs0[<<"TI", "img", i>>] = <<"img", i>>
       /\ fs0[<<"VI", "img", i>>] = <<"absent", 0>>

====
